---- MODULE Spec2Model ----
(***************************************************************************)
(* A model of copy_labels.py: GitHubLabelManager (check_repo_exists,       *)
(* get_labels, delete_label, create_label, clear_labels, copy_labels) and  *)
(* main, run on asyncio's single-threaded cooperative scheduler against a  *)
(* GitHub REST server holding the labels of two repositories.              *)
(*                                                                         *)
(* One action is one scheduler step: the code that runs from the arrival   *)
(* of a response (or from the start of a task) up to the next await that   *)
(* really suspends, i.e. up to the next HTTP request being handed to the   *)
(* client.                                                                 *)
(***************************************************************************)
EXTENDS Integers, Sequences, FiniteSets, TLC

VARIABLES
    argv,           \* parsed command line: token, source, target, keep_existing
    environ,        \* os.environ: GITHUB_TOKEN, SOURCE_REPO, TARGET_REPO
    pc,             \* the await main() is suspended at
    exit_code,      \* the process's exit status, -1 while it runs
    token, source, target,          \* main's locals
    source_exists, target_exists,   \* main's locals
    repos,          \* the server: repository -> its labels, in listing order
    page, acc,      \* get_labels' locals `page` and `labels`
    labels,         \* `labels` of clear_labels / copy_labels (get_labels' result)
    tasks,          \* the coroutines handed to asyncio.gather, with their progress
    sent,           \* every HTTP request handed to the client, in call order
    recv,           \* every response or transport error the client got, in order
    log,            \* the records emitted through `logger`, in order
    initial         \* the server's labels when the run started

vars == <<argv, environ, pc, exit_code, token, source, target, source_exists,
          target_exists, repos, page, acc, labels, tasks, sent, recv, log,
          initial>>

-----------------------------------------------------------------------------
(* Bounds *)

\* Labels a repository holds at most in the full-run specification.
MaxLabels == 2

\* Labels the listed repository holds at most in the listing specification.
MaxListed == 250

-----------------------------------------------------------------------------
(* Values *)

\* Python's None.
None == "<None>"

\* per_page of get_labels' request, and the length it compares a page with.
PER_PAGE == 100

RepoA == "o/a"
RepoB == "o/b"
Repos == {RepoA, RepoB}

Min(a, b) == IF a < b THEN a ELSE b

DigitChar == <<"0", "1", "2", "3", "4", "5", "6", "7", "8", "9">>

RECURSIVE Digits(_)
Digits(n) == IF n < 10 THEN <<DigitChar[n + 1]>>
             ELSE Append(Digits(n \div 10), DigitChar[(n % 10) + 1])

\* The name of the i-th label of the label universe, as a string of characters.
\* The first two hold characters that a URL path reserves.
NameOf(i) == IF i = 1 THEN <<"a", "/", "b">>
             ELSE IF i = 2 THEN <<"%", "2", "F">>
             ELSE <<"n">> \o Digits(i)

\* A label as the list endpoint returns it. Two variants per name, so that the
\* two repositories can hold labels of one name and different colour.
LabelOf(i, variant) ==
    [name |-> NameOf(i),
     color |-> IF variant = 1 THEN "d73a4a" ELSE "0e8a16",
     description |-> IF variant = 1 THEN None ELSE "text"]

\* A repository holding the first n labels of the universe.
Holding(n, variant) == [i \in 1..n |-> LabelOf(i, variant)]

Names(ls) == [i \in 1..Len(ls) |-> ls[i].name]

Range(s) == {s[i] : i \in 1..Len(s)}

-----------------------------------------------------------------------------
(* urllib.parse.quote and the server's reading of a URL path *)

Unreserved == {"a", "b", "n", "F", "_", ".", "-", "~"} \cup Range(DigitChar)

PercentCode(c) == IF c = "/" THEN <<"%", "2", "F">>
                  ELSE IF c = "%" THEN <<"%", "2", "5">>
                  ELSE <<"%", "3", "F">>

\* quote(s, safe): every character outside the unreserved set and `safe`
\* becomes its percent code.
RECURSIVE quote(_, _)
quote(s, safe) ==
    IF s = <<>> THEN <<>>
    ELSE (IF Head(s) \in Unreserved \cup safe THEN <<Head(s)>>
          ELSE PercentCode(Head(s))) \o quote(Tail(s), safe)

\* The path segments a string contributes to a URL: split at every "/".
RECURSIVE SplitSlash(_, _)
SplitSlash(s, cur) ==
    IF s = <<>> THEN <<cur>>
    ELSE IF Head(s) = "/" THEN <<cur>> \o SplitSlash(Tail(s), <<>>)
    ELSE SplitSlash(Tail(s), Append(cur, Head(s)))

\* The server's decoding of one path segment.
RECURSIVE Unquote(_)
Unquote(s) ==
    IF s = <<>> THEN <<>>
    ELSE IF Head(s) = "%" /\ Len(s) >= 3
         THEN (IF SubSeq(s, 2, 3) = <<"2", "F">> THEN <<"/">>
               ELSE IF SubSeq(s, 2, 3) = <<"2", "5">> THEN <<"%">>
               ELSE <<"?">>) \o Unquote(SubSeq(s, 4, Len(s)))
         ELSE <<Head(s)>> \o Unquote(Tail(s))

-----------------------------------------------------------------------------
(* HTTP requests, as the code builds them *)

NoParams == [per_page |-> 0, page |-> 0]
NoJson == [name |-> <<>>, color |-> "", description |-> ""]

\* GET {base_url}/repos/{repo}
CheckRequest(repo) ==
    [method |-> "GET", repo |-> repo, resource |-> "", rest |-> <<>>,
     params |-> NoParams, json |-> NoJson]

\* GET {base_url}/repos/{repo}/labels?per_page=100&page={page}
ListRequest(repo, p) ==
    [method |-> "GET", repo |-> repo, resource |-> "labels", rest |-> <<>>,
     params |-> [per_page |-> PER_PAGE, page |-> p], json |-> NoJson]

\* DELETE {base_url}/repos/{repo}/labels/{quote(label_name, safe='')}
\* `rest` is what follows ".../labels/" in the path, cut into its segments.
DeleteRequest(repo, label_name) ==
    [method |-> "DELETE", repo |-> repo, resource |-> "labels",
     rest |-> SplitSlash(quote(label_name, {}), <<>>),
     params |-> NoParams, json |-> NoJson]

\* The payload of create_label: label.get("description", "") is the label's
\* description when the key is there (None included), "" when it is not.
Payload(label) ==
    [name |-> label.name,
     color |-> label.color,
     description |-> IF "description" \in DOMAIN label THEN label.description ELSE ""]

\* POST {base_url}/repos/{repo}/labels with the payload as JSON
CreateRequest(repo, label) ==
    [method |-> "POST", repo |-> repo, resource |-> "labels", rest |-> <<>>,
     params |-> NoParams, json |-> Payload(label)]

IsCheck(r) == r.method = "GET" /\ r.resource = ""
IsList(r) == r.method = "GET" /\ r.resource = "labels"
IsDelete(r) == r.method = "DELETE"
IsCreate(r) == r.method = "POST"

-----------------------------------------------------------------------------
(* The server. A response is a status code and a JSON body, or a transport *)
(* error (httpx.HTTPError raised by the client call); with it comes the    *)
(* server's state after the request. A transport error may strike before   *)
(* the server acted or after it (a timeout while reading the response).    *)

Response(status, body, after) ==
    [transport_error |-> FALSE, status_code |-> status, json |-> body, repos |-> after]

TransportError(after) ==
    [transport_error |-> TRUE, status_code |-> 0, json |-> <<>>, repos |-> after]

\* What the client got for a request, as `recv` keeps it.
Received(req, resp) ==
    [req |-> req, transport_error |-> resp.transport_error,
     status_code |-> resp.status_code, items |-> Len(resp.json)]

\* GET /repos/{repo}: 200 for a repository the token can see, 404 or 403 otherwise,
\* 301 for one that was renamed (the client follows no redirect).
CheckResponses(srv, req) ==
    {Response(st, <<>>, srv) : st \in {200, 301, 403, 404}} \cup {TransportError(srv)}

\* One page of a repository's labels.
PageOf(all, per_page, p) ==
    SubSeq(all, (p - 1) * per_page + 1, Min(p * per_page, Len(all)))

ListResponses(srv, req) ==
    { Response(200, PageOf(srv[req.repo], req.params.per_page, req.params.page), srv),
      Response(500, <<>>, srv),
      TransportError(srv) }

Without(ls, name) == SelectSeq(ls, LAMBDA l : l.name # name)

\* DELETE /repos/{repo}/labels/{name}: 204 and the label is gone, 404 when the
\* path names no label of the repository.
DeleteResponses(srv, req) ==
    LET name == IF Len(req.rest) = 1 THEN Unquote(req.rest[1]) ELSE <<>>
        found == Len(req.rest) = 1 /\ name \in Range(Names(srv[req.repo]))
        ok == IF found
              THEN Response(204, <<>>, [srv EXCEPT ![req.repo] = Without(@, name)])
              ELSE Response(404, <<>>, srv)
    IN  {ok, Response(500, <<>>, srv), TransportError(srv), TransportError(ok.repos)}

\* POST /repos/{repo}/labels: 201 and the label is added, 422 when the repository
\* has a label of that name.
CreateResponses(srv, req) ==
    LET ok == IF req.json.name \in Range(Names(srv[req.repo]))
              THEN Response(422, <<>>, srv)
              ELSE Response(201, <<>>, [srv EXCEPT ![req.repo] = Append(@, req.json)])
    IN  {ok, Response(500, <<>>, srv), TransportError(srv), TransportError(ok.repos)}

-----------------------------------------------------------------------------
(* GitHubLabelManager *)

Record(level, event, subject) == [level |-> level, event |-> event, subject |-> subject]

\* check_repo_exists: what it returns and what it logs for a response.
check_repo_exists(resp, repo) ==
    IF resp.transport_error
    THEN [ret |-> FALSE, log |-> <<Record("ERROR", "Error checking repository", repo)>>]
    ELSE IF resp.status_code = 200
    THEN [ret |-> TRUE, log |-> <<>>]
    ELSE IF resp.status_code = 404
    THEN [ret |-> FALSE, log |-> <<Record("ERROR", "Repository not found (404)", repo)>>]
    ELSE [ret |-> FALSE, log |-> <<Record("ERROR", "Failed to check repository", repo)>>]

\* r.raise_for_status() raises httpx.HTTPStatusError for a status that is not 2xx.
RaisesForStatus(status) == ~(200 <= status /\ status <= 299)

GetLabelsOnErrorDropsAll(resp, labelsSoFar, p, repo) ==
    IF resp.transport_error \/ RaisesForStatus(resp.status_code)
    THEN [break |-> TRUE, labels |-> <<>>, page |-> p,
          log |-> <<Record("ERROR", "Failed to fetch labels", repo)>>]
    ELSE IF resp.json = <<>>
    THEN [break |-> TRUE, labels |-> labelsSoFar, page |-> p, log |-> <<>>]
    ELSE IF Len(resp.json) < PER_PAGE
    THEN [break |-> TRUE, labels |-> labelsSoFar \o resp.json, page |-> p, log |-> <<>>]
    ELSE [break |-> FALSE, labels |-> labelsSoFar \o resp.json, page |-> p + 1,
          log |-> <<>>]

GetLabelsFullPageIsLast(resp, labelsSoFar, p, repo) ==
    IF resp.transport_error \/ RaisesForStatus(resp.status_code)
    THEN [break |-> TRUE, labels |-> labelsSoFar, page |-> p,
          log |-> <<Record("ERROR", "Failed to fetch labels", repo)>>]
    ELSE IF resp.json = <<>>
    THEN [break |-> TRUE, labels |-> labelsSoFar, page |-> p, log |-> <<>>]
    ELSE IF Len(resp.json) <= PER_PAGE
    THEN [break |-> TRUE, labels |-> labelsSoFar \o resp.json, page |-> p, log |-> <<>>]
    ELSE [break |-> FALSE, labels |-> labelsSoFar \o resp.json, page |-> p + 1,
          log |-> <<>>]

\* One turn of get_labels' loop, from the response to the page request: whether
\* the loop ends, and `labels` and `page` after it.
GetLabelsStep(resp, labelsSoFar, p, repo) ==
    IF resp.transport_error \/ RaisesForStatus(resp.status_code)
    THEN [break |-> TRUE, labels |-> labelsSoFar, page |-> p,
          log |-> <<Record("ERROR", "Failed to fetch labels", repo)>>]
    ELSE IF resp.json = <<>>
    THEN [break |-> TRUE, labels |-> labelsSoFar, page |-> p, log |-> <<>>]
    ELSE IF Len(resp.json) < PER_PAGE
    THEN [break |-> TRUE, labels |-> labelsSoFar \o resp.json, page |-> p, log |-> <<>>]
    ELSE [break |-> FALSE, labels |-> labelsSoFar \o resp.json, page |-> p + 1,
          log |-> <<>>]

\* delete_label: what it logs for a response. Nothing is raised.
delete_label(resp, label_name) ==
    IF resp.transport_error
    THEN <<Record("ERROR", "Error deleting label", label_name)>>
    ELSE IF resp.status_code = 204
    THEN <<Record("INFO", "Deleted label", label_name)>>
    ELSE <<Record("WARNING", "Failed to delete label", label_name)>>

create_label_422_as_error(resp, label) ==
    IF resp.transport_error
    THEN <<Record("ERROR", "Error creating label", label.name)>>
    ELSE IF resp.status_code = 201
    THEN <<Record("INFO", "Created label", label.name)>>
    ELSE <<Record("ERROR", "Failed to create label", label.name)>>

\* create_label: what it logs for a response. Nothing is raised.
create_label(resp, label) ==
    IF resp.transport_error
    THEN <<Record("ERROR", "Error creating label", label.name)>>
    ELSE IF resp.status_code = 201
    THEN <<Record("INFO", "Created label", label.name)>>
    ELSE IF resp.status_code = 422
    THEN <<Record("WARNING", "Label already exists", label.name)>>
    ELSE <<Record("ERROR", "Failed to create label", label.name)>>

\* A coroutine handed to asyncio.gather: not started, awaiting its response, done.
Task(coro, repo, arg) == [coro |-> coro, repo |-> repo, arg |-> arg, st |-> "pending"]

\* clear_labels: tasks = [self.delete_label(client, repo, label["name"]) ...]
DeleteTasks(repo, ls) == [i \in 1..Len(ls) |-> Task("delete_label", repo, ls[i].name)]

CreateTasksButLast(repo, ls) ==
    [i \in 1..(Len(ls) - 1) |-> Task("create_label", repo, ls[i])]

\* copy_labels: tasks = [self.create_label(client, to_repo, label) ...]
CreateTasks(repo, ls) == [i \in 1..Len(ls) |-> Task("create_label", repo, ls[i])]

GatherReturnsAtOnce(ts, coro) == TRUE

GatherNeedsATask(ts, coro) ==
    /\ \E i \in 1..Len(ts) : ts[i].coro = coro
    /\ \A i \in 1..Len(ts) : ts[i].coro = coro => ts[i].st = "done"

\* await asyncio.gather(*tasks) returns when every task of the batch is done.
GatherDone(ts, coro) ==
    \A i \in 1..Len(ts) : ts[i].coro = coro => ts[i].st = "done"

ClearListsSource(from_repo, to_repo) == from_repo

\* copy_labels: the repository clear_labels is called on.
ClearedRepo(from_repo, to_repo) == to_repo

-----------------------------------------------------------------------------
(* main *)

\* Python truthiness of an optional string, and `a or b`.
Truthy(x) == x # None /\ x # ""
Or(a, b) == IF Truthy(a) THEN a ELSE b

MissingTokenOnly(tok, src, tgt) == ~Truthy(tok)

\* if not token or not source or not target
Missing(tok, src, tgt) == ~Truthy(tok) \/ ~Truthy(src) \/ ~Truthy(tgt)

AbortsIfBothFail(src_ok, tgt_ok) == ~src_ok /\ ~tgt_ok

\* if not source_exists or not target_exists
Aborts(src_ok, tgt_ok) == ~src_ok \/ ~tgt_ok

ClearAlways(args) == TRUE

\* clear_existing=not args.keep_existing
ClearExisting(args) == ~args.keep_existing

-----------------------------------------------------------------------------
(* Initial states *)

Omitted(args) == Cardinality({k \in {"token", "source", "target"} : args[k] = None})

\* Command lines: every flag given, one of the three omitted, or all omitted.
ArgvChoices ==
    {a \in [token : {None, "ghp_x"}, source : {None, RepoA},
            target : {None, RepoB}, keep_existing : BOOLEAN] :
        Omitted(a) \in {0, 1, 3}}

NoEnv == [GITHUB_TOKEN |-> None, SOURCE_REPO |-> None, TARGET_REPO |-> None]
FullEnv == [GITHUB_TOKEN |-> "ghp_y", SOURCE_REPO |-> RepoB, TARGET_REPO |-> RepoA]
EmptyTokenEnv == [GITHUB_TOKEN |-> "", SOURCE_REPO |-> RepoB, TARGET_REPO |-> RepoA]

\* A command line with an environment: nothing set in the environment; everything
\* set and a flag omitted; the token set to the empty string and --token omitted.
Configs ==
    {c \in [argv : ArgvChoices, environ : {NoEnv, FullEnv, EmptyTokenEnv}] :
        \/ c.environ = NoEnv
        \/ c.environ = FullEnv /\ Omitted(c.argv) > 0
        \/ c.environ = EmptyTokenEnv /\ c.argv.token = None /\ Omitted(c.argv) = 1}

\* The state main() starts in, before the command line is looked at.
Start(a, e, srv) ==
    /\ argv = a
    /\ environ = e
    /\ pc = "main"
    /\ exit_code = -1
    /\ token = None /\ source = None /\ target = None
    /\ source_exists = FALSE /\ target_exists = FALSE
    /\ repos = srv
    /\ page = 0 /\ acc = <<>> /\ labels = <<>>
    /\ tasks = <<>>
    /\ sent = <<>>
    /\ recv = <<>>
    /\ log = <<>>
    /\ initial = srv

Init ==
    \E c \in Configs, n \in 0..MaxLabels, m \in 0..MaxLabels :
        Start(c.argv, c.environ, [r \in Repos |-> IF r = RepoA THEN Holding(n, 1) ELSE Holding(m, 2)])

-----------------------------------------------------------------------------
(* Steps *)

\* get_labels is entered: page = 1, labels = [], and the first page is requested.
EnterGetLabels(at, repo, sent0) ==
    /\ pc' = at
    /\ page' = 1
    /\ acc' = <<>>
    /\ sent' = Append(sent0, ListRequest(repo, 1))

\* copy_labels past the clearing: the source is listed.
EnterCopy(log0, sent0) ==
    /\ log' = Append(log0, Record("INFO", "Copying labels", source))
    /\ EnterGetLabels("copy_get_labels", source, sent0)

\* main after copy_labels has returned.
Done(log0) ==
    /\ log' = Append(log0, Record("INFO", "Done!", ""))
    /\ exit_code' = 0
    /\ pc' = "exit"

\* main up to its first await: the parameters are resolved; with one missing the
\* process exits, otherwise the source repository is checked.
ParseArgs ==
    /\ pc = "main"
    /\ token' = Or(argv.token, environ.GITHUB_TOKEN)
    /\ source' = Or(argv.source, environ.SOURCE_REPO)
    /\ target' = Or(argv.target, environ.TARGET_REPO)
    /\ IF Missing(token', source', target')
       THEN /\ log' = Append(log, Record("ERROR", "Missing required arguments", ""))
            /\ exit_code' = 1
            /\ pc' = "exit"
            /\ sent' = sent
       ELSE /\ sent' = Append(sent, CheckRequest(source'))
            /\ pc' = "check_source"
            /\ UNCHANGED <<log, exit_code>>
    /\ UNCHANGED <<argv, environ, source_exists, target_exists, repos, page, acc,
                   labels, tasks, recv, initial>>

\* The source check answers; the target is checked next, whatever the answer.
CheckSourceResponse ==
    /\ pc = "check_source"
    /\ \E resp \in CheckResponses(repos, CheckRequest(source)) :
        LET r == check_repo_exists(resp, source) IN
        /\ source_exists' = r.ret
        /\ recv' = Append(recv, Received(CheckRequest(source), resp))
        /\ log' = log \o r.log
        /\ sent' = Append(sent, CheckRequest(target))
        /\ pc' = "check_target"
    /\ UNCHANGED <<argv, environ, exit_code, token, source, target, target_exists,
                   repos, page, acc, labels, tasks, initial>>

\* The target check answers; main aborts or enters copy_labels, which clears the
\* target first unless told to keep its labels.
CheckTargetResponse ==
    /\ pc = "check_target"
    /\ \E resp \in CheckResponses(repos, CheckRequest(target)) :
        LET r == check_repo_exists(resp, target) IN
        /\ target_exists' = r.ret
        /\ recv' = Append(recv, Received(CheckRequest(target), resp))
        /\ IF Aborts(source_exists, r.ret)
           THEN /\ log' = (log \o r.log) \o
                          <<Record("ERROR", "Aborting due to missing repository", "")>>
                /\ exit_code' = 1
                /\ pc' = "exit"
                /\ UNCHANGED <<sent, page, acc>>
           ELSE /\ UNCHANGED exit_code
                /\ IF ClearExisting(argv)
                   THEN /\ log' = Append(log \o r.log,
                                         Record("INFO", "Clearing existing labels",
                                                ClearedRepo(source, target)))
                        /\ EnterGetLabels("clear_get_labels",
                                          ClearedRepo(source, target), sent)
                   ELSE EnterCopy(log \o r.log, sent)
    /\ UNCHANGED <<argv, environ, token, source, target, source_exists, repos,
                   labels, tasks, initial>>

\* The repository get_labels is listing.
ListedRepo == IF pc = "clear_get_labels" THEN ClearedRepo(source, target) ELSE source

\* A page request of get_labels answers: the loop requests the next page, or it
\* ends and the caller (clear_labels, copy_labels) builds its tasks and awaits them.
GetLabelsResponse ==
    /\ pc \in {"clear_get_labels", "copy_get_labels"}
    /\ \E resp \in ListResponses(repos, ListRequest(ListedRepo, page)) :
        LET step == GetLabelsStep(resp, acc, page, ListedRepo)
            log0 == log \o step.log
        IN
        /\ recv' = Append(recv, Received(ListRequest(ListedRepo, page), resp))
        /\ IF ~step.break
           THEN /\ acc' = step.labels
                /\ page' = step.page
                /\ sent' = Append(sent, ListRequest(ListedRepo, step.page))
                /\ log' = log0
                /\ UNCHANGED <<pc, labels, tasks, exit_code>>
           ELSE /\ labels' = step.labels
                /\ IF pc = "clear_get_labels"
                   THEN /\ tasks' = tasks \o DeleteTasks(ListedRepo, step.labels)
                        /\ IF GatherDone(tasks', "delete_label")
                           THEN EnterCopy(log0, sent)
                           ELSE /\ pc' = "clear_gather"
                                /\ log' = log0
                                /\ acc' = step.labels
                                /\ UNCHANGED <<page, sent>>
                        /\ UNCHANGED exit_code
                   ELSE /\ acc' = step.labels
                        /\ UNCHANGED <<page, sent>>
                        /\ IF step.labels = <<>>
                           THEN /\ Done(Append(log0, Record("WARNING", "No labels found",
                                                            source)))
                                /\ UNCHANGED tasks
                           ELSE /\ tasks' = tasks \o CreateTasks(target, step.labels)
                                /\ IF GatherDone(tasks', "create_label")
                                   THEN Done(Append(log0, Record("INFO", "Found labels to copy",
                                                                 source)))
                                   ELSE /\ pc' = "copy_gather"
                                        /\ log' = Append(log0, Record("INFO",
                                                                      "Found labels to copy",
                                                                      source))
                                        /\ UNCHANGED exit_code
    /\ UNCHANGED <<argv, environ, token, source, target, source_exists,
                   target_exists, repos, initial>>

\* The request a task makes.
RequestOf(t) == IF t.coro = "delete_label" THEN DeleteRequest(t.repo, t.arg)
                ELSE CreateRequest(t.repo, t.arg)

\* The event loop starts the tasks of a gather in the order they were handed over;
\* a task runs up to its request.
TaskStart(i) ==
    /\ pc # "exit"
    /\ tasks[i].st = "pending"
    /\ \A j \in 1..(i - 1) : tasks[j].st # "pending"
    /\ tasks' = [tasks EXCEPT ![i].st = "inflight"]
    /\ sent' = Append(sent, RequestOf(tasks[i]))
    /\ UNCHANGED <<argv, environ, pc, exit_code, token, source, target, source_exists,
                   target_exists, repos, page, acc, labels, recv, log, initial>>

\* A task's request answers, in any order among those in flight: the task logs the
\* outcome and ends; when it was the last of its batch, gather returns and the
\* caller goes on.
TaskResponse(i) ==
    /\ pc # "exit"
    /\ tasks[i].st = "inflight"
    /\ \E resp \in (IF tasks[i].coro = "delete_label"
                    THEN DeleteResponses(repos, RequestOf(tasks[i]))
                    ELSE CreateResponses(repos, RequestOf(tasks[i]))) :
        LET log0 == log \o (IF tasks[i].coro = "delete_label"
                            THEN delete_label(resp, tasks[i].arg)
                            ELSE create_label(resp, tasks[i].arg))
        IN
        /\ repos' = resp.repos
        /\ recv' = Append(recv, Received(RequestOf(tasks[i]), resp))
        /\ tasks' = [tasks EXCEPT ![i].st = "done"]
        /\ IF pc = "clear_gather" /\ GatherDone(tasks', "delete_label")
           THEN EnterCopy(log0, sent) /\ UNCHANGED exit_code
           ELSE IF pc = "copy_gather" /\ GatherDone(tasks', "create_label")
           THEN Done(log0) /\ UNCHANGED <<page, acc, sent>>
           ELSE log' = log0 /\ UNCHANGED <<pc, exit_code, page, acc, sent>>
    /\ UNCHANGED <<argv, environ, token, source, target, source_exists,
                   target_exists, labels, initial>>

StartSomeTask == \E i \in 1..Len(tasks) : TaskStart(i)

SomeTaskResponse == \E i \in 1..Len(tasks) : TaskResponse(i)

Next ==
    \/ ParseArgs
    \/ CheckSourceResponse
    \/ CheckTargetResponse
    \/ GetLabelsResponse
    \/ StartSomeTask
    \/ SomeTaskResponse

\* A whole run of main.
Spec == Init /\ [][Next]_vars

-----------------------------------------------------------------------------
(* get_labels alone, on a repository of up to MaxListed labels *)

\* main has checked both repositories and copy_labels has entered get_labels: on
\* the target when clearing, on the source otherwise. The listed repository holds
\* n labels, the other none.
InitList ==
    \E keep \in BOOLEAN, n \in 0..MaxListed :
        /\ argv = [token |-> "ghp_x", source |-> RepoA, target |-> RepoB,
                   keep_existing |-> keep]
        /\ environ = [GITHUB_TOKEN |-> None, SOURCE_REPO |-> None, TARGET_REPO |-> None]
        /\ pc = IF keep THEN "copy_get_labels" ELSE "clear_get_labels"
        /\ exit_code = -1
        /\ token = "ghp_x" /\ source = RepoA /\ target = RepoB
        /\ source_exists = TRUE /\ target_exists = TRUE
        /\ repos = [r \in Repos |->
                        IF r = (IF keep THEN RepoA ELSE RepoB)
                        THEN Holding(n, 1) ELSE <<>>]
        /\ page = 1 /\ acc = <<>> /\ labels = <<>>
        /\ tasks = <<>>
        /\ sent = <<CheckRequest(RepoA), CheckRequest(RepoB),
                    ListRequest(IF keep THEN RepoA ELSE RepoB, 1)>>
        /\ recv = <<[req |-> CheckRequest(RepoA), transport_error |-> FALSE,
                     status_code |-> 200, items |-> 0],
                    [req |-> CheckRequest(RepoB), transport_error |-> FALSE,
                     status_code |-> 200, items |-> 0]>>
        /\ initial = repos
        /\ log = <<Record("INFO", IF keep THEN "Copying labels"
                                   ELSE "Clearing existing labels",
                          IF keep THEN RepoA ELSE RepoB)>>

NextList == GetLabelsResponse

SpecList == InitList /\ [][NextList]_vars

-----------------------------------------------------------------------------
(* Observations on a state *)

Creates == SelectSeq(sent, IsCreate)
Deletes == SelectSeq(sent, IsDelete)

Is200(v) == ~v.transport_error /\ v.status_code = 200

\* A page request that get_labels treats as failed.
FetchFailed(v) == v.transport_error \/ v.status_code < 200 \/ v.status_code > 299

\* The response a request kind counts as success.
Succeeded(v) ==
    /\ ~v.transport_error
    /\ v.status_code = (IF IsDelete(v.req) THEN 204 ELSE IF IsCreate(v.req) THEN 201 ELSE 200)

Unfinished(coro) == \E i \in 1..Len(tasks) : tasks[i].coro = coro /\ tasks[i].st # "done"

PageRequests(repo) == SelectSeq(sent, LAMBDA r : IsList(r) /\ r.repo = repo)
PageResponses(repo) == SelectSeq(recv, LAMBDA v : IsList(v.req) /\ v.req.repo = repo)

\* The create request a listed label calls for.
ExpectedCreate(repo, label) ==
    [method |-> "POST", repo |-> repo, resource |-> "labels", rest |-> <<>>,
     params |-> NoParams,
     json |-> [name |-> label.name, color |-> label.color,
               description |-> label.description]]

-----------------------------------------------------------------------------
(* C1 *)

\* C1: the create requests are exactly one per label the source listing returned,
\* in listing order, each against the target with that label's name, colour and
\* description; none before the listing has returned, and all N once the run is over.
C1_OneCreatePerListedLabel ==
    /\ pc \notin {"copy_gather", "exit"} => Creates = <<>>
    /\ exit_code = 1 => Creates = <<>>
    /\ (pc \in {"copy_gather", "exit"} /\ exit_code # 1) =>
          /\ Len(Creates) <= Len(labels)
          /\ \A i \in 1..Len(Creates) : Creates[i] = ExpectedCreate(target, labels[i])
    /\ exit_code = 0 => Len(Creates) = Len(labels)

C1_Witness ==
    /\ exit_code = 0
    /\ Len(labels) >= 2
    /\ Len(Creates) = Len(labels)
    /\ labels[1].description = None

(* C2 *)

\* C2: a repository check is true only for status 200; when one of the two fails
\* the run exits with 1 having issued the two check requests and nothing else; when
\* both are true the exit code is never 1, the run is never stuck, and it ends with 0.
C2_ExitCodeFollowsRepositoryChecks ==
    /\ Len(recv) >= 1 => source_exists = Is200(recv[1])
    /\ Len(recv) = 1 => exit_code = -1
    /\ Len(recv) >= 2 => target_exists = Is200(recv[2])
    /\ (Len(recv) >= 2 /\ ~(Is200(recv[1]) /\ Is200(recv[2]))) =>
          /\ pc = "exit" /\ exit_code = 1
          /\ Len(sent) = 2 /\ IsCheck(sent[1]) /\ IsCheck(sent[2])
          /\ Len(recv) = 2
    /\ (Len(recv) >= 2 /\ Is200(recv[1]) /\ Is200(recv[2])) =>
          /\ exit_code # 1
          /\ pc = "exit" => exit_code = 0
          /\ pc # "exit" => ENABLED Next

C2_Witness ==
    /\ pc = "exit" /\ exit_code = 1
    /\ Len(recv) = 2
    /\ Is200(recv[1])
    /\ recv[2].transport_error

(* C3 *)

AbsentParameter ==
    \/ argv.token = None /\ environ.GITHUB_TOKEN = None
    \/ argv.source = None /\ environ.SOURCE_REPO = None
    \/ argv.target = None /\ environ.TARGET_REPO = None

\* C3: with the token, the source or the target absent from both the command line
\* and the environment, main's first step exits with 1 and no request is ever made.
C3_MissingParameterExitsWithoutRequests ==
    AbsentParameter =>
        /\ sent = <<>> /\ recv = <<>>
        /\ \/ pc = "main" /\ exit_code = -1
           \/ pc = "exit" /\ exit_code = 1

C3_Witness ==
    /\ pc = "exit" /\ exit_code = 1
    /\ argv.token # None
    /\ argv.source = None /\ environ.SOURCE_REPO = None
    /\ argv.target # None

(* C4 *)

\* C4 as stated: with --keep-existing no delete request is made, no list request
\* names the target, and after the two checks there are only source page requests
\* and create requests.
C4_KeepExistingNeverListsTarget ==
    argv.keep_existing =>
        /\ Deletes = <<>>
        /\ \A i \in 1..Len(sent) : ~(IsList(sent[i]) /\ sent[i].repo = target)
        /\ \A i \in 3..Len(sent) :
              \/ IsList(sent[i]) /\ sent[i].repo = source
              \/ IsCreate(sent[i]) /\ sent[i].repo = target

\* C4, amended: with --keep-existing clear_labels never runs: no delete request is
\* made, nothing is logged about clearing, after the two checks there are only
\* source page requests and create requests, and the target is listed only when it
\* is the source as well.
C4_KeepExistingSkipsClearing ==
    argv.keep_existing =>
        /\ Deletes = <<>>
        /\ \A i \in 1..Len(log) : log[i].event # "Clearing existing labels"
        /\ pc \notin {"clear_get_labels", "clear_gather"}
        /\ source # target =>
              \A i \in 1..Len(sent) : ~(IsList(sent[i]) /\ sent[i].repo = target)
        /\ \A i \in 3..Len(sent) :
              \/ IsList(sent[i]) /\ sent[i].repo = source
              \/ IsCreate(sent[i]) /\ sent[i].repo = target

C4_Witness ==
    /\ argv.keep_existing
    /\ exit_code = 0
    /\ source # target
    /\ Len(Creates) >= 1
    /\ Len(initial[target]) >= 1
    /\ \A i \in 1..Len(initial[target]) : initial[target][i] \in Range(repos[target])

(* C5 and C9: get_labels on one repository *)

\* The repository the first listing of the run is made on, once it is requested.
FirstListed == sent[3].repo

\* get_labels on the first listed repository has returned to its caller.
FirstListingOver ==
    \/ pc \in {"clear_gather", "copy_gather", "exit"}
    \/ pc = "copy_get_labels" /\ ~argv.keep_existing

\* C5: pages 1, 2, 3, ... are requested one at a time, in order, 100 labels a page;
\* while no request fails, page i answers with min(100, N - 100 (i - 1)) labels;
\* a listing that ends with no failed request has made N \div 100 + 1 requests and
\* returns the repository's N labels in order; for N = 250 the pages hold 100, 100, 50.
C5_PagesUntilShortPage ==
    LET repo == FirstListed
        N == Len(repos[repo])
        reqs == PageRequests(repo)
        resps == PageResponses(repo)
        clean == \A i \in 1..Len(resps) : ~FetchFailed(resps[i])
    IN
    /\ \A i \in 1..Len(reqs) : reqs[i].params = [per_page |-> 100, page |-> i]
    /\ Len(reqs) - Len(resps) \in {0, 1}
    /\ ~FirstListingOver => Len(reqs) = Len(resps) + 1
    /\ clean => \A i \in 1..Len(resps) : resps[i].items = Min(100, N - 100 * (i - 1))
    /\ (clean /\ FirstListingOver) =>
          /\ Len(reqs) = (N \div 100) + 1
          /\ Len(resps) = Len(reqs)
          /\ labels = repos[repo]
          /\ N = 250 => [i \in 1..Len(resps) |-> resps[i].items] = <<100, 100, 50>>

C5_Witness ==
    /\ FirstListingOver
    /\ Len(repos[FirstListed]) = 250
    /\ Len(PageRequests(FirstListed)) = 3
    /\ \A i \in 1..3 : ~FetchFailed(PageResponses(FirstListed)[i])
    /\ Len(labels) = 250

\* C9: when the request for page k fails, it is the last page request of the
\* listing (none follows, none is repeated), get_labels has returned to its caller
\* without raising, the result is the labels of pages 1..k-1 in order, one error is
\* logged, and the caller's tasks are one per label of that result.
C9_FailedPageEndsListing ==
    LET repo == FirstListed
        reqs == PageRequests(repo)
        resps == PageResponses(repo)
    IN
    \A k \in 1..Len(resps) :
        FetchFailed(resps[k]) =>
            /\ k = Len(resps) /\ Len(reqs) = k
            /\ \A i \in 1..(k - 1) : ~FetchFailed(resps[i])
            /\ \A i \in 1..k : reqs[i].params.page = i
            /\ FirstListingOver
            /\ exit_code # 1
            /\ labels = SubSeq(repos[repo], 1, 100 * (k - 1))
            /\ Cardinality({i \in 1..Len(log) :
                              log[i] = Record("ERROR", "Failed to fetch labels", repo)}) = 1
            /\ Len(tasks) = Len(labels)
            /\ \A i \in 1..Len(tasks) :
                  /\ tasks[i].repo = target
                  /\ tasks[i].arg = IF argv.keep_existing THEN labels[i] ELSE labels[i].name

C9_Witness ==
    /\ Len(PageResponses(FirstListed)) = 3
    /\ FetchFailed(PageResponses(FirstListed)[3])
    /\ Len(labels) = 200
    /\ Len(tasks) = 200

(* C6 *)

\* The record a task response must leave in the log.
ExpectedRecord(v, t) ==
    IF IsCreate(v.req)
    THEN IF v.transport_error THEN Record("ERROR", "Error creating label", t.arg.name)
         ELSE IF v.status_code = 201 THEN Record("INFO", "Created label", t.arg.name)
         ELSE IF v.status_code = 422 THEN Record("WARNING", "Label already exists", t.arg.name)
         ELSE Record("ERROR", "Failed to create label", t.arg.name)
    ELSE IF v.transport_error THEN Record("ERROR", "Error deleting label", t.arg)
         ELSE IF v.status_code = 204 THEN Record("INFO", "Deleted label", t.arg)
         ELSE Record("WARNING", "Failed to delete label", t.arg)

TaskEvents == {"Error creating label", "Created label", "Label already exists",
               "Failed to create label", "Error deleting label", "Deleted label",
               "Failed to delete label"}

TaskRecords == SelectSeq(log, LAMBDA r : r.event \in TaskEvents)
TaskResponses == SelectSeq(recv, LAMBDA v : IsCreate(v.req) \/ IsDelete(v.req))

\* C6: whatever a delete or create request answers, the task logs one record for
\* it (a warning for 422 and for a delete status other than 204, an error for a
\* transport error or another create status) and ends; the run never exits with 1
\* once a task has answered, a gather waits only while a task of its batch has yet
\* to start or to answer, every task of a batch makes its request, the source is
\* listed after the deletes, and the run ends with 0.
C6_ItemFailuresAreOnlyLogged ==
    LET resps == TaskResponses
        recs == TaskRecords
    IN
    /\ Len(recs) = Len(resps)
    /\ \A k \in 1..Len(resps) :
          \E i \in 1..Len(tasks) :
              /\ tasks[i].st = "done"
              /\ IsCreate(resps[k].req) = (tasks[i].coro = "create_label")
              /\ recs[k] = ExpectedRecord(resps[k], tasks[i])
              /\ RequestOf(tasks[i]) = resps[k].req
    /\ resps # <<>> => exit_code # 1
    /\ pc = "clear_gather" => Unfinished("delete_label")
    /\ pc = "copy_gather" => Unfinished("create_label")
    /\ (pc = "exit" /\ exit_code = 0) =>
          /\ \A i \in 1..Len(tasks) : tasks[i].st = "done"
          /\ Len(Deletes) + Len(Creates) = Len(tasks)
          /\ Len(resps) = Len(tasks)
          /\ Deletes # <<>> =>
                \E j \in 1..Len(sent) :
                    /\ sent[j] = ListRequest(source, 1)
                    /\ \A i \in 1..Len(sent) : IsDelete(sent[i]) => i < j

C6_Witness ==
    /\ exit_code = 0
    /\ \E i, j \in 1..Len(recv) :
          /\ i < j
          /\ IsCreate(recv[i].req) /\ ~recv[i].transport_error /\ recv[i].status_code = 422
          /\ IsCreate(recv[j].req) /\ Succeeded(recv[j])
    /\ \E i, j \in 1..Len(recv) :
          /\ i < j
          /\ IsDelete(recv[i].req) /\ ~Succeeded(recv[i])
          /\ IsDelete(recv[j].req) /\ Succeeded(recv[j])

(* C7 *)

\* C7: with clearing enabled, when the listing of the target comes back empty, no
\* delete request is ever made, the target keeps its labels until the first create
\* request, and the next request is the first page of the source; the run then
\* creates the labels the source listing returns.
C7_ClearingEmptyTargetIsNoOp ==
    (/\ ~argv.keep_existing
     /\ Len(recv) >= 3
     /\ (FetchFailed(recv[3]) \/ recv[3].items = 0)) =>
        /\ recv[3].req = ListRequest(target, 1)
        /\ Deletes = <<>>
        /\ \A i \in 1..Len(tasks) : tasks[i].coro # "delete_label"
        /\ Creates = <<>> => repos[target] = initial[target]
        /\ ~FetchFailed(recv[3]) => initial[target] = <<>>
        /\ Len(sent) >= 4 /\ sent[4] = ListRequest(source, 1)
        /\ pc \in {"copy_get_labels", "copy_gather", "exit"}
        /\ exit_code # 1
        /\ exit_code = 0 => Len(Creates) = Len(labels)

C7_Witness ==
    /\ ~argv.keep_existing
    /\ Len(recv) >= 3 /\ Is200(recv[3]) /\ recv[3].items = 0
    /\ exit_code = 0
    /\ Deletes = <<>>
    /\ Len(Creates) >= 2
    /\ Len(repos[target]) >= 2

(* C8 *)

\* C8: the phases never overlap. While the target is being listed there is no
\* task; while a delete task is pending or in flight, copy_labels waits in
\* clear_labels and no create request exists; while the source is being listed
\* every delete has answered and no create request exists; create tasks exist only
\* after that. In the order of the requests, the delete requests are one block,
\* with only the checks and pages of the target before it and only pages of the
\* source and create requests after it, and the create requests come last; the
\* first delete request follows an answered page of the target.
C8_PhasesAreSequential ==
    LET D == {i \in 1..Len(sent) : IsDelete(sent[i])}
        C == {i \in 1..Len(sent) : IsCreate(sent[i])}
    IN
    /\ pc = "clear_get_labels" => tasks = <<>>
    /\ Unfinished("delete_label") =>
          /\ pc = "clear_gather"
          /\ C = {}
          /\ \A i \in D : \A j \in (i + 1)..Len(sent) : j \in D
    /\ pc = "copy_get_labels" =>
          /\ ~Unfinished("delete_label")
          /\ C = {}
          /\ \A i \in 1..Len(tasks) : tasks[i].coro = "delete_label"
    /\ (\E i \in 1..Len(tasks) : tasks[i].coro = "create_label") =>
          /\ pc \in {"copy_gather", "exit"}
          /\ ~Unfinished("delete_label")
    /\ \A i \in D : (i - 1) \in D \/ (\A j \in D : j >= i)
    /\ \A i \in D : \A j \in (1..Len(sent)) \ D :
          /\ j < i => (IsCheck(sent[j]) \/ (IsList(sent[j]) /\ sent[j].repo = target))
          /\ j > i => (IsCreate(sent[j]) \/ (IsList(sent[j]) /\ sent[j].repo = source))
    /\ \A i \in C : i = Len(sent) \/ (i + 1) \in C
    /\ D # {} =>
          \E k \in 1..Len(recv) :
              /\ IsList(recv[k].req) /\ recv[k].req.repo = target
              /\ \A i \in 1..k : ~IsDelete(recv[i].req)

C8_Witness ==
    /\ ~argv.keep_existing
    /\ pc = "copy_gather"
    /\ Len(Deletes) >= 2
    /\ \E i \in 1..Len(tasks) : tasks[i].coro = "create_label" /\ tasks[i].st = "inflight"
    /\ \E i \in 1..Len(tasks) : tasks[i].coro = "create_label" /\ tasks[i].st = "pending"

(* C10 *)

AllSucceeded == \A k \in 1..Len(recv) : Succeeded(recv[k])

\* C10: a run that clears the target and in which every request succeeds ends with
\* the target holding exactly the labels the source held when the run started.
C10_TargetEndsEqualToSource ==
    (~argv.keep_existing /\ exit_code = 0 /\ AllSucceeded) =>
        Range(repos[target]) = Range(initial[source])

\* The same for two different repositories.
C10_DistinctRepositories ==
    (~argv.keep_existing /\ exit_code = 0 /\ AllSucceeded /\ source # target) =>
        /\ Range(repos[target]) = Range(initial[source])
        /\ repos[source] = initial[source]

====
